---- MODULE Spec2Model ----
(***************************************************************************)
(* Model of the JHN Finance widgets.  The voice widget (Chatbot component) *)
(* is the realtime session controller, the transcript buffer, the playback *)
(* scheduler and the quote submission; the text widget (ChatbotText        *)
(* component) is the typed conversation and its quote submission; the      *)
(* relay is the server's handler of POST /api/submit-quote.                *)
(* Every React state setter and every ref assignment of a handler is       *)
(* applied in the step that models the handler; the asynchronous           *)
(* suspension points (getUserMedia, live.connect, decodeAudioData,         *)
(* generateContent, fetch) split a handler into one action per resumption. *)
(***************************************************************************)
EXTENDS Integers, Sequences, FiniteSets, TLC

\* ---- bounds -------------------------------------------------------------
MaxStarts == 2      \* microphone requests issued by startSession
SessionStarts == 1  \* the same, in the specifications that follow one session
MaxMsgs   == 3      \* inbound messages delivered, playback signals
MaxTextMsgs == 2    \* inbound messages delivered, transcription signals
MaxTime   == 2      \* largest currentTime an audio context reaches
MaxDur    == 2      \* largest duration of a decoded fragment
MaxSubmits == 2     \* extraction requests issued by one widget
MaxEntries == 5     \* transcript length up to which the text widget sends
RestartMsgs == 1    \* inbound messages delivered, sessions that follow one another
MaxRequests == 2    \* POST requests the relay receives
SampleSteps == 8    \* captured samples are the multiples of 1/SampleSteps in [-1, 1]
BlockLen == 2       \* samples of a captured audio block

\* ---- values -------------------------------------------------------------
Null == 0           \* a ref holding null

IDLE       == "IDLE"
CONNECTING == "CONNECTING"
LISTENING  == "LISTENING"
PROCESSING == "PROCESSING"
SPEAKING   == "SPEAKING"
ERROR      == "ERROR"
ChatStatus == {IDLE, CONNECTING, LISTENING, PROCESSING, SPEAKING, ERROR}

StartIds == 1..MaxStarts
MsgIds   == 1..MaxMsgs
SubmitIds == 1..MaxSubmits
RequestIds == 1..MaxRequests

VARIABLES
  \* React state of the component
  isOpen, status, transcription, error, showFeedback, feedbackSubmitted,
  isSubmitting,
  \* refs
  sessionPromiseRef, inputAudioContextRef, outputAudioContextRef,
  microphoneStreamRef, scriptProcessorRef, nextAudioStartTimeRef,
  audioSourcesRef, isSubmittingRef,
  currentInputTranscriptionRef, currentOutputTranscriptionRef,
  \* asynchronous operations in flight and the objects they created
  startPc,      \* startSession invocation -> "none" | "mic" | "connect" | "done"
  session,      \* live session -> "none" | "connecting" | "connectingC" | "open" | "closing" | "closed"
  outCtx,       \* playback context -> [st, time]
  decodes,      \* onmessage invocations suspended in decodeAudioData
  srcs,         \* buffer source of a message -> [st, ctx, start, end]
  nStarts, nMsgs,
  \* handleDataSubmission invocations of the voice widget
  submitPc,     \* invocation -> "none" | "extract" | "relay" | "ok" | "failedExtract" | "failedRelay"
  nSubmits,
  \* the text widget: its React state and refs, and its operations in flight
  chatbotText, textProc,
  \* the page's environment, fixed while the page lives
  widget,           \* the component App mounts: "voice" | "text"
  apiKey,           \* getApiKey() returns a non-empty key
  isSecureContext,  \* window.isSecureContext
  \* history
  scheduled,        \* source.start calls since the playback clock was last reset
  lastInterruptId,  \* message whose interruption signal was handled last
  afterInterrupt,   \* an interruption was handled and nothing scheduled since
  cancelled,        \* pending startSession invocations that stopSession overtook
  afterStop,        \* stopSession ran and startSession has not run since
  turnIn, turnOut,  \* per session, the deltas delivered since its last turn-complete
  skipped,          \* messages whose audio payload failed to decode
  idleStop,         \* the submission settled last ran stopSession on a stopped session
  \* the relay server
  relay,            \* POST /api/submit-quote request -> [pc, body, forwards, webhook, failed, response]
  \* the microphone capture
  capture           \* the block onaudioprocess handled last: [inputData, int16]

stateVars == <<isOpen, status, transcription, error, showFeedback,
               feedbackSubmitted, isSubmitting>>
refVars   == <<sessionPromiseRef, inputAudioContextRef, outputAudioContextRef,
               microphoneStreamRef, scriptProcessorRef, nextAudioStartTimeRef,
               audioSourcesRef, isSubmittingRef,
               currentInputTranscriptionRef, currentOutputTranscriptionRef>>
procVars  == <<startPc, session, outCtx, decodes, srcs, nStarts, nMsgs>>
histVars  == <<scheduled, lastInterruptId, afterInterrupt, cancelled,
               afterStop, turnIn, turnOut>>
envVars   == <<widget, apiKey, isSecureContext>>
submitVars == <<submitPc, nSubmits, idleStop>>
textVars  == <<chatbotText, textProc>>
vars      == <<stateVars, refVars, procVars, envVars, histVars, submitVars,
               textVars, skipped, relay, capture>>

\* ---- inbound messages ---------------------------------------------------
\* LiveServerMessage.serverContent: every field is optional
ThankYou == "T"     \* stands for "Thank you for using the JHN Finance AI Agent!"
UserDeltas == {<<"u">>}
BotDeltas  == {<<"b">>, <<ThankYou>>}
Messages ==
  [inputTranscription  : UserDeltas \cup {<<>>},
   outputTranscription : BotDeltas \cup {<<>>},
   turnComplete        : BOOLEAN,
   audio               : 0..MaxDur,
   interrupted         : BOOLEAN]

\* messages that carry only playback signals, and only transcription signals
AudioMessages ==
  {m \in Messages : /\ m.inputTranscription = <<>> /\ m.outputTranscription = <<>>
                    /\ ~m.turnComplete
                    /\ (m.audio > 0 \/ m.interrupted)}
TextMessages ==
  {m \in Messages : /\ m.audio = 0 /\ ~m.interrupted
                    /\ m.outputTranscription # <<ThankYou>>
                    /\ (m.inputTranscription # <<>> \/ m.outputTranscription # <<>>
                          \/ m.turnComplete)}

\* outcomes of decodeAudioData for a payload whose buffer lasts dur
decodeAudioData(dur) == {[ok |-> TRUE, duration |-> dur], [ok |-> FALSE, duration |-> 0]}

Max(a, b) == IF a >= b THEN a ELSE b

\* startTime = Math.max(audioCtx.currentTime, nextAudioStartTimeRef.current)
StartTime(currentTime, nextStart) == Max(currentTime, nextStart)

\* the clock advanced to the start of the fragment instead of its end
NextAudioStartTime_NoDuration(startTime, duration) == startTime

\* nextAudioStartTimeRef.current = startTime + audioBuffer.duration
NextAudioStartTime(startTime, duration) == startTime + duration

\* the interrupted block leaving the playback clock as it was
ClockAfterInterrupt_Kept(nextStart) == nextStart

\* nextAudioStartTimeRef.current = 0 in the interrupted block
ClockAfterInterrupt(nextStart) == 0

NoSource == [st |-> "none", ctx |-> Null, start |-> 0, end |-> 0]
NoCtx    == [st |-> "none", time |-> 0]
\* a source whose onended ran: nothing refers to it any more
EndedSource == [st |-> "done", ctx |-> Null, start |-> 0, end |-> 0]

\* ---- derived UI state ---------------------------------------------------
isActive == status # IDLE /\ status # ERROR

botSaidThankYou ==
  \E i \in 1..Len(transcription) :
     /\ transcription[i].speaker = "bot"
     /\ \E j \in 1..Len(transcription[i].text) : transcription[i].text[j] = ThankYou

showSubmitButton ==
  Len(transcription) >= 2 /\ botSaidThankYou /\ ~showFeedback /\ ~isSubmitting

\* ---- relay server: POST /api/submit-quote ---------------------------------
HttpOk == 200
HttpServerError == 500

\* the statuses the external webhook answers with
WebhookStatuses == {200, 201, 404, 502}

\* Response.ok of the webhook's response
ResponseOk(st) == st >= 200 /\ st <= 299

\* the response of the relay: the HTTP status and the fields of its JSON body
\* (status Null: no status field; error: the body has an error field)
NoResponse == [http |-> Null, ok |-> FALSE, status |-> Null, error |-> FALSE]
NoRequest ==
  [pc |-> "none", body |-> "none", forwards |-> 0, webhook |-> Null,
   failed |-> "none", response |-> NoResponse]

\* ---- teardown -----------------------------------------------------------
\* source.stop() on every source of the set
StopSources(S, set) ==
  [i \in DOMAIN S |->
     IF i \in set /\ S[i].st = "playing" THEN [S[i] EXCEPT !.st = "stopped"] ELSE S[i]]

\* sessionPromiseRef.current.then(session => session.close())
RequestClose(sess, ref) ==
  IF ref = Null THEN sess
  ELSE [sess EXCEPT ![ref] =
          CASE sess[ref] = "connecting" -> "connectingC"
            [] sess[ref] = "open"       -> "closing"
            [] OTHER                    -> sess[ref]]

\* AudioContext.close() on the context a ref holds
CloseCtx(C, ref) ==
  IF ref = Null THEN C ELSE [C EXCEPT ![ref].st = "closed"]

stopAudioPlayback ==
  IF outputAudioContextRef # Null
  THEN /\ srcs' = StopSources(srcs, audioSourcesRef)
       /\ audioSourcesRef' = {}
       /\ nextAudioStartTimeRef' = 0
       /\ scheduled' = <<>>
  ELSE UNCHANGED <<srcs, audioSourcesRef, nextAudioStartTimeRef, scheduled>>

\* cleanup(), starting from the session table sess
cleanup(sess) ==
  /\ stopAudioPlayback
  /\ microphoneStreamRef' = Null
  /\ scriptProcessorRef' = Null
  /\ outCtx' = CloseCtx(outCtx, outputAudioContextRef)
  /\ inputAudioContextRef' = Null
  /\ outputAudioContextRef' = Null
  /\ session' = RequestClose(sess, sessionPromiseRef)
  /\ sessionPromiseRef' = Null
  /\ isSubmittingRef' = FALSE

\* ---- the text widget's state --------------------------------------------
\* a text is the sequence of its phrases
Intro           == <<"Hi! You're here">>
ConfirmQuestion == <<"Okay, just to confirm", "Is that correct?">>
\* a closing message without the thank-you line
closingMessage_NoThanks == <<"Perfect!">>
closingMessage  == <<"Perfect!", ThankYou>>

InitChatbotText ==
  [isOpen |-> FALSE, transcription |-> <<>>, isLoading |-> FALSE, error |-> "null",
   showFeedback |-> FALSE, feedbackSubmitted |-> FALSE, isSubmitting |-> FALSE,
   isSubmittingRef |-> FALSE, chatHistoryRef |-> <<>>, introShownRef |-> FALSE]

\* generateContent calls of sendMessage in flight, and the handleDataSubmission
\* invocations of the text widget
InitTextProc ==
  [requests |-> 0, submitPc |-> [s \in SubmitIds |-> "none"], nSubmits |-> 0]

\* ---- initial state ------------------------------------------------------
Init ==
  /\ isOpen \in BOOLEAN
  /\ status = IDLE
  /\ transcription = <<>>
  /\ error = "null"
  /\ showFeedback = FALSE
  /\ feedbackSubmitted = FALSE
  /\ isSubmitting = FALSE
  /\ sessionPromiseRef = Null
  /\ inputAudioContextRef = Null
  /\ outputAudioContextRef = Null
  /\ microphoneStreamRef = Null
  /\ scriptProcessorRef = Null
  /\ nextAudioStartTimeRef = 0
  /\ audioSourcesRef = {}
  /\ isSubmittingRef = FALSE
  /\ currentInputTranscriptionRef = <<>>
  /\ currentOutputTranscriptionRef = <<>>
  /\ startPc = [k \in StartIds |-> "none"]
  /\ session = [k \in StartIds |-> "none"]
  /\ outCtx = [k \in StartIds |-> NoCtx]
  /\ decodes = {}
  /\ srcs = [i \in MsgIds |-> NoSource]
  /\ nStarts = 0
  /\ nMsgs = 0
  /\ submitPc = [s \in SubmitIds |-> "none"]
  /\ nSubmits = 0
  /\ chatbotText = InitChatbotText
  /\ textProc = InitTextProc
  /\ widget \in {"voice", "text"}
  /\ apiKey \in BOOLEAN
  /\ isSecureContext \in BOOLEAN
  /\ scheduled = <<>>
  /\ lastInterruptId = 0
  /\ afterInterrupt = FALSE
  /\ cancelled = {}
  /\ afterStop = FALSE
  /\ turnIn = [k \in StartIds |-> <<>>]
  /\ turnOut = [k \in StartIds |-> <<>>]
  /\ skipped = {}
  /\ idleStop = FALSE
  /\ relay = [q \in RequestIds |-> NoRequest]
  /\ capture = [inputData |-> <<>>, int16 |-> <<>>]

\* ---- user operations ----------------------------------------------------
\* the microphone button is rendered while the widget is open and the
\* feedback prompt is hidden, and is disabled while isSubmitting
MicButtonEnabled == widget = "voice" /\ isOpen /\ ~showFeedback /\ ~isSubmitting

\* startSession without the credential and secure-context checks
StartSession_Unchecked ==
  /\ MicButtonEnabled /\ ~isActive
  /\ transcription' = <<>>
  /\ showFeedback' = FALSE
  /\ feedbackSubmitted' = FALSE
  /\ isSubmitting' = FALSE
  /\ cleanup(session)
  /\ nStarts < MaxStarts
  /\ error' = "null"
  /\ status' = CONNECTING
  /\ nStarts' = nStarts + 1
  /\ startPc' = [startPc EXCEPT ![nStarts + 1] = "mic"]
  /\ afterStop' = FALSE
  /\ UNCHANGED <<envVars, relay, capture, submitVars, textVars, skipped, isOpen,
                 currentInputTranscriptionRef, currentOutputTranscriptionRef,
                 decodes, nMsgs, lastInterruptId, afterInterrupt, cancelled,
                 turnIn, turnOut>>

\* startSession up to its first await (getUserMedia)
StartSession ==
  /\ MicButtonEnabled /\ ~isActive
  \* resetChat()
  /\ transcription' = <<>>
  /\ showFeedback' = FALSE
  /\ feedbackSubmitted' = FALSE
  /\ isSubmitting' = FALSE
  /\ cleanup(session)
  /\ IF ~apiKey
     THEN /\ error' = "Connection setup is incomplete"
          /\ status' = ERROR
          /\ UNCHANGED <<startPc, nStarts>>
     ELSE IF ~isSecureContext
     THEN /\ error' = "Microphone access requires a secure connection"
          /\ status' = ERROR
          /\ UNCHANGED <<startPc, nStarts>>
     ELSE /\ nStarts < MaxStarts
          /\ error' = "null"
          /\ status' = CONNECTING
          /\ nStarts' = nStarts + 1
          /\ startPc' = [startPc EXCEPT ![nStarts + 1] = "mic"]
  /\ afterStop' = FALSE
  /\ UNCHANGED <<envVars, relay, capture, submitVars, textVars, skipped, isOpen, currentInputTranscriptionRef, currentOutputTranscriptionRef,
                 decodes, nMsgs, lastInterruptId, afterInterrupt, cancelled,
                 turnIn, turnOut>>

\* stopSession, from the microphone button
StopSession ==
  /\ MicButtonEnabled /\ isActive
  /\ status' = IDLE
  /\ cleanup(session)
  /\ cancelled' = cancelled \cup {k \in StartIds : startPc[k] \in {"mic", "connect"}}
  /\ afterStop' = TRUE
  /\ UNCHANGED <<envVars, relay, capture, submitVars, textVars, skipped, isOpen, transcription, error, showFeedback, feedbackSubmitted,
                 isSubmitting, currentInputTranscriptionRef,
                 currentOutputTranscriptionRef, startPc, decodes, nStarts, nMsgs,
                 lastInterruptId, afterInterrupt, turnIn, turnOut>>

\* handleClose: setIsOpen(false); resetChat()
HandleClose ==
  /\ widget = "voice" /\ isOpen
  /\ isOpen' = FALSE
  /\ transcription' = <<>>
  /\ error' = "null"
  /\ showFeedback' = FALSE
  /\ feedbackSubmitted' = FALSE
  /\ isSubmitting' = FALSE
  /\ status' = IDLE
  /\ cleanup(session)
  /\ UNCHANGED <<envVars, relay, capture, submitVars, textVars, skipped, currentInputTranscriptionRef, currentOutputTranscriptionRef,
                 startPc, decodes, nStarts, nMsgs, lastInterruptId,
                 afterInterrupt, cancelled, afterStop, turnIn, turnOut>>

\* ---- startSession after its awaits --------------------------------------
\* getUserMedia resolved: lines from "microphoneStreamRef.current = stream"
\* to "await sessionPromise"
MicGranted(k) ==
  /\ startPc[k] = "mic"
  /\ microphoneStreamRef' = k
  /\ inputAudioContextRef' = k
  /\ outputAudioContextRef' = k
  /\ outCtx' = [outCtx EXCEPT ![k] = [st |-> "running", time |-> 0]]
  /\ nextAudioStartTimeRef' = 0
  /\ scheduled' = <<>>
  /\ session' = [session EXCEPT ![k] = "connecting"]
  /\ sessionPromiseRef' = k
  /\ startPc' = [startPc EXCEPT ![k] = "connect"]
  /\ UNCHANGED <<envVars, relay, capture, submitVars, textVars, skipped, stateVars, scriptProcessorRef, audioSourcesRef, isSubmittingRef,
                 currentInputTranscriptionRef, currentOutputTranscriptionRef,
                 decodes, srcs, nStarts, nMsgs, lastInterruptId, afterInterrupt,
                 cancelled, afterStop, turnIn, turnOut>>

\* the catch block of startSession
StartupFailed(k, sess, message) ==
  /\ error' = message
  /\ status' = ERROR
  /\ cleanup(sess)
  /\ startPc' = [startPc EXCEPT ![k] = "done"]
  /\ cancelled' = cancelled \ {k}
  /\ UNCHANGED <<envVars, relay, capture, submitVars, textVars, skipped, isOpen, transcription, showFeedback, feedbackSubmitted,
                 isSubmitting, currentInputTranscriptionRef,
                 currentOutputTranscriptionRef, decodes, nStarts, nMsgs,
                 lastInterruptId, afterInterrupt, afterStop, turnIn, turnOut>>

\* getUserMedia rejected
MicDenied(k) ==
  /\ startPc[k] = "mic"
  /\ StartupFailed(k, session, "Permission denied")

\* live.connect rejected
ConnectFailed(k) ==
  /\ session[k] \in {"connecting", "connectingC"}
  /\ StartupFailed(k, [session EXCEPT ![k] = "closed"], "Connection failed.")

\* the session opened: the onopen callback, then the promise resolves, which
\* ends startSession and runs a close that cleanup queued on the promise
OnOpen(k) ==
  /\ session[k] \in {"connecting", "connectingC"}
  /\ IF inputAudioContextRef = Null \/ microphoneStreamRef = Null
     THEN UNCHANGED <<status, scriptProcessorRef>>
     ELSE /\ status' = LISTENING
          /\ scriptProcessorRef' = inputAudioContextRef
  /\ session' = [session EXCEPT ![k] =
                   IF session[k] = "connectingC" THEN "closing" ELSE "open"]
  /\ startPc' = [startPc EXCEPT ![k] = "done"]
  /\ cancelled' = cancelled \ {k}
  /\ UNCHANGED <<envVars, relay, capture, submitVars, textVars, skipped, isOpen, transcription, error, showFeedback, feedbackSubmitted,
                 isSubmitting, sessionPromiseRef, inputAudioContextRef,
                 outputAudioContextRef, microphoneStreamRef,
                 nextAudioStartTimeRef, audioSourcesRef, isSubmittingRef,
                 currentInputTranscriptionRef, currentOutputTranscriptionRef,
                 outCtx, decodes, srcs, nStarts, nMsgs, scheduled,
                 lastInterruptId, afterInterrupt, afterStop, turnIn, turnOut>>

\* ---- onaudioprocess -----------------------------------------------------
\* a sample is held as its numerator n: the value n / SampleSteps
Samples == (0 - SampleSteps)..SampleSteps
Blocks  == [1..BlockLen -> Samples]

Int16Scale == 32768

\* the integer part of num / den, den > 0 (ToIntegerOrInfinity truncates)
Trunc(num, den) == IF num >= 0 THEN num \div den ELSE 0 - ((0 - num) \div den)

\* storing into an Int16Array: modulo 2^16, read as two's complement
ToInt16(x) ==
  LET m == x % 2^16
  IN IF m >= 2^15 THEN m - 2^16 ELSE m

\* int16[i] = inputData[i] * 32768
Quantize(n) == ToInt16(Trunc(n * Int16Scale, SampleSteps))

\* the onaudioprocess callback of the capture processor on one block
OnAudioProcess(inputData) ==
  /\ scriptProcessorRef # Null
  /\ capture' = [inputData |-> inputData,
                 int16 |-> [i \in 1..Len(inputData) |-> Quantize(inputData[i])]]
  /\ UNCHANGED <<stateVars, refVars, procVars, envVars, histVars, submitVars,
                 textVars, skipped, relay>>

\* ---- onmessage ----------------------------------------------------------
\* a partial transcription overwriting the speaker's last entry, final or not
AmendOrAppend_IgnoresFinal(prev, speaker, text) ==
  IF Len(prev) > 0 /\ prev[Len(prev)].speaker = speaker
  THEN [prev EXCEPT ![Len(prev)] = [speaker |-> speaker, text |-> text, isFinal |-> FALSE]]
  ELSE Append(prev, [speaker |-> speaker, text |-> text, isFinal |-> FALSE])

\* the updater passed to setTranscription for a partial transcription
AmendOrAppend(prev, speaker, text) ==
  IF /\ Len(prev) > 0
     /\ prev[Len(prev)].speaker = speaker
     /\ ~prev[Len(prev)].isFinal
  THEN [prev EXCEPT ![Len(prev)].text = text]
  ELSE Append(prev, [speaker |-> speaker, text |-> text, isFinal |-> FALSE])

\* turn completion committing only the last entry
MarkFinal_LastOnly(prev) ==
  [i \in 1..Len(prev) |-> IF i = Len(prev) THEN [prev[i] EXCEPT !.isFinal = TRUE] ELSE prev[i]]

\* prev.map(entry => ({ ...entry, isFinal: true }))
MarkFinal(prev) == [i \in 1..Len(prev) |-> [prev[i] EXCEPT !.isFinal = TRUE]]

\* the accumulators and the transcript after the three transcription blocks
InputAfter(m)  == currentInputTranscriptionRef \o m.inputTranscription
OutputAfter(m) == currentOutputTranscriptionRef \o m.outputTranscription

TranscriptAfter(m) ==
  LET t1 == IF m.inputTranscription # <<>>
            THEN AmendOrAppend(transcription, "user", InputAfter(m))
            ELSE transcription
      t2 == IF m.outputTranscription # <<>>
            THEN AmendOrAppend(t1, "bot", OutputAfter(m))
            ELSE t1
  IN IF m.turnComplete THEN MarkFinal(t2) ELSE t2

\* the interrupted block stopping the sources and leaving them in the set
Interrupted_KeepsSet(S, A, id) ==
  /\ srcs' = StopSources(S, A)
  /\ audioSourcesRef' = A
  /\ nextAudioStartTimeRef' = ClockAfterInterrupt(nextAudioStartTimeRef)
  /\ scheduled' = <<>>
  /\ lastInterruptId' = Max(lastInterruptId, id)
  /\ afterInterrupt' = TRUE

\* the interrupted block, run on the source table S and the active set A
Interrupted(S, A, id) ==
  /\ srcs' = StopSources(S, A)
  /\ audioSourcesRef' = {}
  /\ nextAudioStartTimeRef' = ClockAfterInterrupt(nextAudioStartTimeRef)
  /\ scheduled' = <<>>
  /\ lastInterruptId' = Max(lastInterruptId, id)
  /\ afterInterrupt' = TRUE

\* onmessage up to "await decodeAudioData", or to its end when the message
\* carries no audio or no playback context is held
OnMessage(k, m) ==
  /\ session[k] = "open"
  /\ nMsgs' = nMsgs + 1
  /\ transcription' = TranscriptAfter(m)
  /\ currentInputTranscriptionRef' = IF m.turnComplete THEN <<>> ELSE InputAfter(m)
  /\ currentOutputTranscriptionRef' = IF m.turnComplete THEN <<>> ELSE OutputAfter(m)
  /\ turnIn' = [turnIn EXCEPT ![k] = IF m.turnComplete THEN <<>> ELSE @ \o m.inputTranscription]
  /\ turnOut' = [turnOut EXCEPT ![k] = IF m.turnComplete THEN <<>> ELSE @ \o m.outputTranscription]
  /\ IF m.audio > 0 /\ outputAudioContextRef # Null
     THEN /\ status' = SPEAKING
          /\ decodes' = decodes \cup
               {[id |-> nMsgs + 1, ctx |-> outputAudioContextRef,
                 dur |-> m.audio, interrupted |-> m.interrupted]}
          /\ UNCHANGED <<srcs, audioSourcesRef, nextAudioStartTimeRef, scheduled,
                         lastInterruptId, afterInterrupt>>
     ELSE /\ UNCHANGED <<status, decodes>>
          /\ IF m.interrupted
             THEN Interrupted(srcs, audioSourcesRef, nMsgs + 1)
             ELSE UNCHANGED <<srcs, audioSourcesRef, nextAudioStartTimeRef,
                              scheduled, lastInterruptId, afterInterrupt>>
  /\ UNCHANGED <<envVars, relay, capture, submitVars, textVars, skipped, isOpen, error, showFeedback, feedbackSubmitted, isSubmitting,
                 sessionPromiseRef, inputAudioContextRef, outputAudioContextRef,
                 microphoneStreamRef, scriptProcessorRef, isSubmittingRef,
                 startPc, session, outCtx, nStarts, cancelled, afterStop>>

\* decodeAudioData resolved: the source is created, started and tracked,
\* then the interrupted block of the same message runs
DecodeResolved(d) ==
  /\ d \in decodes
  /\ \E r \in decodeAudioData(d.dur) :
       /\ r.ok
       /\ LET startTime == StartTime(outCtx[d.ctx].time, nextAudioStartTimeRef)
              source    == [st |-> "playing", ctx |-> d.ctx, start |-> startTime,
                            end |-> startTime + r.duration]
              S         == [srcs EXCEPT ![d.id] = source]
              A         == audioSourcesRef \cup {d.id}
          IN IF d.interrupted
             THEN Interrupted(S, A, d.id)
             ELSE /\ srcs' = S
                  /\ audioSourcesRef' = A
                  /\ nextAudioStartTimeRef' = NextAudioStartTime(startTime, r.duration)
                  /\ scheduled' = Append(scheduled,
                        [id |-> d.id, start |-> startTime, end |-> startTime + r.duration])
                  /\ afterInterrupt' = FALSE
                  /\ UNCHANGED lastInterruptId
  /\ decodes' = decodes \ {d}
  /\ UNCHANGED <<envVars, relay, capture, submitVars, textVars, skipped, stateVars, sessionPromiseRef, inputAudioContextRef,
                 outputAudioContextRef, microphoneStreamRef, scriptProcessorRef,
                 isSubmittingRef, currentInputTranscriptionRef,
                 currentOutputTranscriptionRef, startPc, session, outCtx,
                 nStarts, nMsgs, cancelled, afterStop, turnIn, turnOut>>

\* a rejected decodeAudioData reported as a session error
DecodeRejected_Error(d) ==
  /\ d \in decodes
  /\ \E r \in decodeAudioData(d.dur) : ~r.ok
  /\ decodes' = decodes \ {d}
  /\ skipped' = skipped \cup {d.id}
  /\ status' = ERROR
  /\ UNCHANGED <<envVars, relay, capture, submitVars, textVars, isOpen, transcription, error,
                 showFeedback, feedbackSubmitted, isSubmitting, refVars, startPc,
                 session, outCtx, srcs, nStarts, nMsgs, histVars>>

\* decodeAudioData rejected: the handler ends at the await
DecodeRejected(d) ==
  /\ d \in decodes
  /\ \E r \in decodeAudioData(d.dur) : ~r.ok
  /\ decodes' = decodes \ {d}
  /\ skipped' = skipped \cup {d.id}
  /\ UNCHANGED <<envVars, relay, capture, submitVars, textVars, stateVars, refVars, startPc,
                 session, outCtx, srcs, nStarts, nMsgs, histVars>>

\* source.onended: the source played to its end, or was stopped
OnEnded(i) ==
  /\ \/ srcs[i].st = "stopped"
     \/ /\ srcs[i].st = "playing"
        /\ outCtx[srcs[i].ctx].st = "running"
        /\ outCtx[srcs[i].ctx].time >= srcs[i].end
  /\ audioSourcesRef' = audioSourcesRef \ {i}
  /\ status' = IF audioSourcesRef \ {i} = {} THEN LISTENING ELSE status
  /\ srcs' = [srcs EXCEPT ![i] = EndedSource]
  /\ UNCHANGED <<envVars, relay, capture, submitVars, textVars, skipped, isOpen, transcription, error, showFeedback, feedbackSubmitted,
                 isSubmitting, sessionPromiseRef, inputAudioContextRef,
                 outputAudioContextRef, microphoneStreamRef, scriptProcessorRef,
                 nextAudioStartTimeRef, isSubmittingRef,
                 currentInputTranscriptionRef, currentOutputTranscriptionRef,
                 startPc, session, outCtx, decodes, nStarts, nMsgs, histVars>>

\* the playback clock of a running context advances
Tick(k) ==
  /\ outCtx[k].st = "running"
  /\ outCtx[k].time < MaxTime
  /\ outCtx' = [outCtx EXCEPT ![k].time = @ + 1]
  /\ UNCHANGED <<envVars, relay, capture, submitVars, textVars, skipped, stateVars, refVars, startPc, session, decodes, srcs, nStarts,
                 nMsgs, histVars>>

\* ---- onerror / onclose --------------------------------------------------
OnError(k) ==
  /\ session[k] = "open"
  /\ error' = "We encountered a problem connecting"
  /\ status' = ERROR
  /\ cleanup([session EXCEPT ![k] = "closing"])
  /\ UNCHANGED <<envVars, relay, capture, submitVars, textVars, skipped, isOpen, transcription, showFeedback, feedbackSubmitted,
                 isSubmitting, currentInputTranscriptionRef,
                 currentOutputTranscriptionRef, startPc, decodes, nStarts, nMsgs,
                 lastInterruptId, afterInterrupt, cancelled, afterStop,
                 turnIn, turnOut>>

\* onclose resetting the status as stopSession does
OnClose_ToIdle(k) ==
  /\ session[k] \in {"open", "closing"}
  /\ cleanup([session EXCEPT ![k] = "closed"])
  /\ status' = IDLE
  /\ UNCHANGED <<envVars, relay, capture, submitVars, textVars, skipped, isOpen, transcription,
                 error, showFeedback, feedbackSubmitted, isSubmitting,
                 currentInputTranscriptionRef, currentOutputTranscriptionRef,
                 startPc, decodes, nStarts, nMsgs, lastInterruptId,
                 afterInterrupt, cancelled, afterStop, turnIn, turnOut>>

\* the session closed, at the remote end or after a requested close
OnClose(k) ==
  /\ session[k] \in {"open", "closing"}
  /\ cleanup([session EXCEPT ![k] = "closed"])
  /\ UNCHANGED <<envVars, relay, capture, submitVars, textVars, skipped, stateVars, currentInputTranscriptionRef,
                 currentOutputTranscriptionRef, startPc, decodes, nStarts, nMsgs,
                 lastInterruptId, afterInterrupt, cancelled, afterStop,
                 turnIn, turnOut>>

\* ---- quote submission, voice widget ---------------------------------------
\* what the relay call of a submission ends with: fetch rejected, or a response
\* with webhookRes.ok and the ok field of its JSON body (false when the body
\* is not JSON)
RelayOutcomes ==
  {r \in [fetched : BOOLEAN, httpOk : BOOLEAN, ok : BOOLEAN] :
     ~r.fetched => (~r.httpOk /\ ~r.ok)}

\* a submission succeeding on the HTTP status alone
SubmitSucceeded_HttpOnly(r) == r.fetched /\ r.httpOk

\* success = true is reached unless fetch rejected or (!webhookRes.ok || !result.ok)
SubmitSucceeded(r) == r.fetched /\ r.httpOk /\ r.ok

InFlight(pc) == {s \in SubmitIds : pc[s] \in {"extract", "relay"}}

\* the session is stopped: status Idle, every resource released
Stopped == /\ status = IDLE
           /\ microphoneStreamRef = Null /\ scriptProcessorRef = Null
           /\ inputAudioContextRef = Null /\ outputAudioContextRef = Null
           /\ sessionPromiseRef = Null /\ audioSourcesRef = {}

\* stopSession leaving the status at Error
stopSession_Error(sess) ==
  /\ status' = ERROR
  /\ cleanup(sess)

\* stopSession: setStatus(IDLE); cleanup()
stopSession(sess) ==
  /\ status' = IDLE
  /\ cleanup(sess)

\* the submit button is rendered while the widget is open and showSubmitButton
HandleDataSubmission ==
  /\ widget = "voice" /\ isOpen /\ showSubmitButton
  /\ ~isSubmitting
  /\ nSubmits < MaxSubmits
  /\ isSubmitting' = TRUE
  /\ status' = PROCESSING
  /\ nSubmits' = nSubmits + 1
  /\ submitPc' = [submitPc EXCEPT ![nSubmits + 1] = "extract"]
  /\ UNCHANGED <<envVars, relay, capture, textVars, skipped, isOpen, transcription, error,
                 showFeedback, feedbackSubmitted, refVars, procVars, histVars,
                 idleStop>>

\* generateContent resolved with JSON text: the relay call is issued
ExtractionDone(s) ==
  /\ submitPc[s] = "extract"
  /\ submitPc' = [submitPc EXCEPT ![s] = "relay"]
  /\ UNCHANGED <<envVars, relay, capture, textVars, skipped, stateVars, refVars, procVars,
                 histVars, nSubmits, idleStop>>

\* the rest of handleDataSubmission once its try block ended: the catch block
\* when it threw, then the finally block
Settled(s, pc, success, message) ==
  /\ error' = IF success THEN error ELSE message
  /\ isSubmitting' = FALSE
  /\ showFeedback' = IF success THEN TRUE ELSE showFeedback
  /\ stopSession(session)
  /\ submitPc' = [submitPc EXCEPT ![s] = pc]
  /\ idleStop' = Stopped
  /\ cancelled' = cancelled \cup {k \in StartIds : startPc[k] \in {"mic", "connect"}}
  /\ afterStop' = TRUE
  /\ UNCHANGED <<envVars, relay, capture, textVars, skipped, isOpen, transcription,
                 feedbackSubmitted, currentInputTranscriptionRef,
                 currentOutputTranscriptionRef, startPc, decodes, nStarts, nMsgs,
                 lastInterruptId, afterInterrupt, turnIn, turnOut, nSubmits>>

\* generateContent rejected, or JSON.parse(response.text) threw
ExtractionFailed(s) ==
  /\ submitPc[s] = "extract"
  /\ Settled(s, "failedExtract", FALSE, "Quote submission failed")

\* fetch and webhookRes.json() settled
RelayAnswered(s, r) ==
  /\ submitPc[s] = "relay"
  /\ IF SubmitSucceeded(r)
     THEN Settled(s, "ok", TRUE, "null")
     ELSE Settled(s, "failedRelay", FALSE, "Webhook failed")

\* ---- the text widget -----------------------------------------------------
\* what the user types, and what the model answers
UserTexts == {<<>>, <<" ">>, <<"hello">>, <<"hello", " ">>, <<"yes">>,
              <<"no, not ", "correct">>}
BotTexts  == {<<"What is your name?">>, ConfirmQuestion, closingMessage}

\* inputValue.trim(): the text without its leading and trailing whitespace
RECURSIVE trimStart(_)
trimStart(text) ==
  IF text # <<>> /\ Head(text) = " " THEN trimStart(Tail(text)) ELSE text
RECURSIVE trimEnd(_)
trimEnd(text) ==
  IF text # <<>> /\ text[Len(text)] = " "
  THEN trimEnd(SubSeq(text, 1, Len(text) - 1))
  ELSE text
trim(text) == trimEnd(trimStart(text))

\* text.includes(phrase)
includes(text, phrase) == \E i \in 1..Len(text) : text[i] = phrase

\* /^(yes|correct|that's right|yep|yeah|sounds good)$/i.test(text) ||
\* text.includes('yes') || text.includes('correct')
isConfirmationAnswer(text) ==
  \/ text \in {<<"yes">>, <<"correct">>, <<"that's right">>, <<"yep">>,
               <<"yeah">>, <<"sounds good">>}
  \/ includes(text, "yes")
  \/ includes(text, "correct")

\* transcription.filter(e => e.speaker === 'bot').pop()?.text ?? ''
lastBotMessage(tr) ==
  LET bots == {i \in 1..Len(tr) : tr[i].speaker = "bot"}
  IN IF bots = {} THEN <<>>
     ELSE tr[CHOOSE i \in bots : \A j \in bots : j <= i].text

Entry(speaker, text) == [speaker |-> speaker, text |-> text, isFinal |-> TRUE]
Turn(role, text)     == [role |-> role, text |-> text]

\* the effect on [isOpen, transcription.length], run after the render that
\* follows a handler
IntroEffect(c) ==
  LET shown == IF c.isOpen /\ c.transcription = <<>> /\ ~c.introShownRef
               THEN [c EXCEPT !.introShownRef = TRUE,
                              !.transcription = <<Entry("bot", Intro)>>,
                              !.chatHistoryRef = Append(@, Turn("model", Intro))]
               ELSE c
  IN IF ~shown.isOpen THEN [shown EXCEPT !.introShownRef = FALSE] ELSE shown

\* resetChat clearing isLoading as well
resetChatText_ClearsLoading(c) ==
  [c EXCEPT !.transcription = <<>>, !.error = "null", !.showFeedback = FALSE,
            !.feedbackSubmitted = FALSE, !.isSubmitting = FALSE,
            !.isSubmittingRef = FALSE, !.chatHistoryRef = <<>>,
            !.isLoading = FALSE]

\* resetChat of the text widget
resetChatText(c) ==
  [c EXCEPT !.transcription = <<>>, !.error = "null", !.showFeedback = FALSE,
            !.feedbackSubmitted = FALSE, !.isSubmitting = FALSE,
            !.isSubmittingRef = FALSE, !.chatHistoryRef = <<>>]

showSubmit(c) ==
  /\ Len(c.transcription) >= 2
  /\ \E i \in 1..Len(c.transcription) :
        c.transcription[i].speaker = "bot" /\ includes(c.transcription[i].text, ThankYou)
  /\ ~c.showFeedback
  /\ ~c.isSubmitting

voiceVars == <<stateVars, refVars, procVars, histVars, submitVars, skipped>>

\* the launcher button: setIsOpen(true)
OpenText ==
  /\ widget = "text" /\ ~chatbotText.isOpen
  /\ chatbotText' = IntroEffect([chatbotText EXCEPT !.isOpen = TRUE])
  /\ UNCHANGED <<envVars, relay, capture, voiceVars, textProc>>

\* handleClose: setIsOpen(false); resetChat()
HandleCloseText ==
  /\ chatbotText.isOpen
  /\ chatbotText' = IntroEffect(resetChatText([chatbotText EXCEPT !.isOpen = FALSE]))
  /\ UNCHANGED <<envVars, relay, capture, voiceVars, textProc>>

\* the input row is rendered while no feedback prompt and no error is shown,
\* and is disabled while isLoading or isSubmitting
InputEnabled(c) ==
  c.isOpen /\ ~c.showFeedback /\ c.error = "null" /\ ~c.isLoading /\ ~c.isSubmitting

\* sendMessage with the typed inputValue, up to its await
SendMessage(inputValue) ==
  /\ InputEnabled(chatbotText)
  /\ LET c == chatbotText
         text == trim(inputValue)
         userEntry == Entry("user", text)
     IN IF text = <<>> \/ c.isLoading
        THEN UNCHANGED textVars
        ELSE IF includes(lastBotMessage(c.transcription), "Is that correct?")
                /\ isConfirmationAnswer(text)
        THEN /\ chatbotText' = IntroEffect(
                  [c EXCEPT !.error = "null",
                            !.transcription = @ \o <<userEntry, Entry("bot", closingMessage)>>,
                            !.chatHistoryRef = @ \o <<Turn("user", text),
                                                      Turn("model", closingMessage)>>])
             /\ UNCHANGED textProc
        ELSE IF ~apiKey
        THEN /\ chatbotText' = IntroEffect(
                  [c EXCEPT !.error = "Connection setup is incomplete",
                            !.transcription = Append(@, userEntry),
                            !.chatHistoryRef = Append(@, Turn("user", text)),
                            !.isLoading = FALSE])
             /\ UNCHANGED textProc
        ELSE /\ chatbotText' = IntroEffect(
                  [c EXCEPT !.error = "null",
                            !.transcription = Append(@, userEntry),
                            !.chatHistoryRef = Append(@, Turn("user", text)),
                            !.isLoading = TRUE])
             /\ textProc' = [textProc EXCEPT !.requests = @ + 1]
  /\ UNCHANGED <<envVars, relay, capture, voiceVars>>

\* generateContent of sendMessage resolved with botText
ResponseArrived(botText) ==
  /\ textProc.requests > 0
  /\ textProc' = [textProc EXCEPT !.requests = @ - 1]
  /\ chatbotText' = IntroEffect(
        [chatbotText EXCEPT !.transcription = Append(@, Entry("bot", botText)),
                            !.chatHistoryRef = Append(@, Turn("model", botText)),
                            !.isLoading = FALSE])
  /\ UNCHANGED <<envVars, relay, capture, voiceVars>>

\* generateContent of sendMessage rejected
RequestFailed ==
  /\ textProc.requests > 0
  /\ textProc' = [textProc EXCEPT !.requests = @ - 1]
  /\ chatbotText' = IntroEffect(
        [chatbotText EXCEPT !.error = "Connection failed", !.isLoading = FALSE])
  /\ UNCHANGED <<envVars, relay, capture, voiceVars>>

\* ---- quote submission, text widget ----------------------------------------
HandleDataSubmissionText ==
  /\ chatbotText.isOpen /\ showSubmit(chatbotText)
  /\ ~chatbotText.isSubmittingRef
  /\ textProc.nSubmits < MaxSubmits
  /\ chatbotText' = [chatbotText EXCEPT !.isSubmittingRef = TRUE, !.isSubmitting = TRUE]
  /\ textProc' = [textProc EXCEPT !.nSubmits = @ + 1,
                                  !.submitPc[textProc.nSubmits + 1] = "extract"]
  /\ UNCHANGED <<envVars, relay, capture, voiceVars>>

ExtractionDoneText(s) ==
  /\ textProc.submitPc[s] = "extract"
  /\ textProc' = [textProc EXCEPT !.submitPc[s] = "relay"]
  /\ UNCHANGED <<envVars, relay, capture, voiceVars, chatbotText>>

\* the catch block when the try block threw, then the finally block
SettledText(s, pc, success, message) ==
  /\ chatbotText' = IntroEffect(
        [chatbotText EXCEPT !.error = IF success THEN @ ELSE message,
                            !.isSubmitting = FALSE,
                            !.isSubmittingRef = FALSE,
                            !.showFeedback = IF success THEN TRUE ELSE @])
  /\ textProc' = [textProc EXCEPT !.submitPc[s] = pc]
  /\ UNCHANGED <<envVars, relay, capture, voiceVars>>

ExtractionFailedText(s) ==
  /\ textProc.submitPc[s] = "extract"
  /\ SettledText(s, "failedExtract", FALSE, "Quote submission failed")

RelayAnsweredText(s, r) ==
  /\ textProc.submitPc[s] = "relay"
  /\ IF SubmitSucceeded(r)
     THEN SettledText(s, "ok", TRUE, "null")
     ELSE SettledText(s, "failedRelay", FALSE, "Webhook failed")

\* ---- the relay's request handler ------------------------------------------
\* a POST to /api/submit-quote arrives: the handler runs to "await readBody"
RelayPost(q, body) ==
  /\ relay[q].pc = "none"
  /\ relay' = [relay EXCEPT ![q].pc = "reading", ![q].body = body]
  /\ UNCHANGED <<stateVars, refVars, procVars, envVars, histVars, submitVars,
                 textVars, skipped, capture>>

\* the catch block
RelayCaught(q, cause) ==
  /\ relay' = [relay EXCEPT
        ![q].pc = "answered",
        ![q].failed = cause,
        ![q].response = [http |-> HttpServerError, ok |-> FALSE, status |-> Null,
                         error |-> TRUE]]
  /\ UNCHANGED <<stateVars, refVars, procVars, envVars, histVars, submitVars,
                 textVars, skipped, capture>>

\* the request stream emitted 'error': readBody rejects
BodyFailed(q) ==
  /\ relay[q].pc = "reading"
  /\ RelayCaught(q, "read")

\* readBody resolved: JSON.parse throws, or the payload is forwarded
BodyRead(q) ==
  /\ relay[q].pc = "reading"
  /\ IF relay[q].body = "malformed"
     THEN RelayCaught(q, "parse")
     ELSE /\ relay' = [relay EXCEPT ![q].pc = "forwarding",
                                    ![q].forwards = @ + 1]
          /\ UNCHANGED <<stateVars, refVars, procVars, envVars, histVars,
                         submitVars, textVars, skipped, capture>>

\* fetch rejected
WebhookFailed(q) ==
  /\ relay[q].pc = "forwarding"
  /\ RelayCaught(q, "forward")

\* the webhook's response answered with ok: true whatever its status
WebhookResponded_AlwaysOk(q, st) ==
  /\ relay[q].pc = "forwarding"
  /\ relay' = [relay EXCEPT
        ![q].pc = "answered",
        ![q].webhook = st,
        ![q].response = [http |-> HttpOk, ok |-> TRUE, status |-> st, error |-> FALSE]]
  /\ UNCHANGED <<stateVars, refVars, procVars, envVars, histVars, submitVars,
                 textVars, skipped, capture>>

\* fetch resolved with the webhook's response
WebhookResponded(q, st) ==
  /\ relay[q].pc = "forwarding"
  /\ relay' = [relay EXCEPT
        ![q].pc = "answered",
        ![q].webhook = st,
        ![q].response = [http |-> IF ResponseOk(st) THEN HttpOk ELSE st,
                         ok |-> ResponseOk(st), status |-> st, error |-> FALSE]]
  /\ UNCHANGED <<stateVars, refVars, procVars, envVars, histVars, submitVars,
                 textVars, skipped, capture>>

\* ---- specifications -----------------------------------------------------
\* the session lifecycle and the operations every specification shares
Lifecycle ==
  \/ StopSession
  \/ HandleClose
  \/ \E k \in StartIds : MicGranted(k)
  \/ \E k \in StartIds : MicDenied(k)
  \/ \E k \in StartIds : ConnectFailed(k)
  \/ \E k \in StartIds : OnOpen(k)
  \/ \E k \in StartIds : OnError(k)
  \/ \E k \in StartIds : OnClose(k)

\* the session with the playback signals of the inbound messages
Next ==
  \/ nStarts < SessionStarts /\ StartSession
  \/ Lifecycle
  \/ nMsgs < MaxMsgs /\ \E k \in StartIds, m \in AudioMessages : OnMessage(k, m)
  \/ \E d \in decodes : DecodeResolved(d)
  \/ \E d \in decodes : DecodeRejected(d)
  \/ \E i \in MsgIds : OnEnded(i)
  \/ \E k \in StartIds : Tick(k)

Spec == Init /\ [][Next]_vars

\* the session with the transcription signals of the inbound messages
NextTranscript ==
  \/ StartSession
  \/ Lifecycle
  \/ nMsgs < MaxTextMsgs /\ \E k \in StartIds, m \in TextMessages : OnMessage(k, m)

SpecTranscript == Init /\ [][NextTranscript]_vars

\* one session with the transcription signals of the inbound messages
NextTurn ==
  \/ nStarts < SessionStarts /\ StartSession
  \/ Lifecycle
  \/ nMsgs < MaxTextMsgs /\ \E k \in StartIds, m \in TextMessages : OnMessage(k, m)

SpecTurn == Init /\ [][NextTurn]_vars

\* inbound messages that carry the closing line of the conversation
ClosingMessages ==
  {m \in Messages : /\ m.audio = 0 /\ ~m.interrupted
                    /\ m.outputTranscription \in {<<>>, <<ThankYou>>}
                    /\ (m.inputTranscription # <<>> \/ m.outputTranscription # <<>>)}

TextWidget ==
  \/ OpenText
  \/ HandleCloseText
  \/ /\ Len(chatbotText.transcription) < MaxEntries
     /\ \E inputValue \in UserTexts : SendMessage(inputValue)
  \/ \E botText \in BotTexts : ResponseArrived(botText)
  \/ RequestFailed
  \/ HandleDataSubmissionText
  \/ \E s \in SubmitIds : ExtractionDoneText(s)
  \/ \E s \in SubmitIds : ExtractionFailedText(s)
  \/ \E s \in SubmitIds, r \in RelayOutcomes : RelayAnsweredText(s, r)

\* the quote submission of either widget, after one session of the voice
\* widget or a conversation of the text widget
NextSubmit ==
  \/ nStarts < SessionStarts /\ StartSession
  \/ Lifecycle
  \/ nMsgs < MaxTextMsgs /\ \E k \in StartIds, m \in ClosingMessages : OnMessage(k, m)
  \/ HandleDataSubmission
  \/ \E s \in SubmitIds : ExtractionDone(s)
  \/ \E s \in SubmitIds : ExtractionFailed(s)
  \/ \E s \in SubmitIds, r \in RelayOutcomes : RelayAnswered(s, r)
  \/ TextWidget

SpecSubmit == Init /\ [][NextSubmit]_vars

\* sessions that follow one another, with the playback signals
NextRestart ==
  \/ StartSession
  \/ Lifecycle
  \/ nMsgs < RestartMsgs /\ \E k \in StartIds, m \in AudioMessages : OnMessage(k, m)
  \/ \E d \in decodes : DecodeResolved(d)
  \/ \E d \in decodes : DecodeRejected(d)
  \/ \E i \in MsgIds : OnEnded(i)
  \/ \E k \in StartIds : Tick(k)

SpecRestart == Init /\ [][NextRestart]_vars

\* inbound messages of a session near its end: the closing line, or audio
ProcessingMessages ==
  ClosingMessages \cup {m \in AudioMessages : ~m.interrupted}

\* one session of the voice widget with playback, and its quote submission
NextProcessing ==
  \/ nStarts < SessionStarts /\ StartSession
  \/ Lifecycle
  \/ nMsgs < MaxTextMsgs /\ \E k \in StartIds, m \in ProcessingMessages : OnMessage(k, m)
  \/ \E d \in decodes : DecodeResolved(d)
  \/ \E d \in decodes : DecodeRejected(d)
  \/ \E i \in MsgIds : OnEnded(i)
  \/ \E k \in StartIds : Tick(k)
  \/ HandleDataSubmission
  \/ \E s \in SubmitIds : ExtractionDone(s)
  \/ \E s \in SubmitIds : ExtractionFailed(s)
  \/ \E s \in SubmitIds, r \in RelayOutcomes : RelayAnswered(s, r)

SpecProcessing == Init /\ [][NextProcessing]_vars

\* the relay server handling its requests
NextRelay ==
  \/ \E q \in RequestIds, body \in {"json", "malformed"} : RelayPost(q, body)
  \/ \E q \in RequestIds : BodyFailed(q)
  \/ \E q \in RequestIds : BodyRead(q)
  \/ \E q \in RequestIds : WebhookFailed(q)
  \/ \E q \in RequestIds, st \in WebhookStatuses : WebhookResponded(q, st)

SpecRelay == Init /\ [][NextRelay]_vars

\* one session with the blocks its capture processor handles
NextCapture ==
  \/ nStarts < SessionStarts /\ StartSession
  \/ Lifecycle
  \/ \E inputData \in Blocks : OnAudioProcess(inputData)

SpecCapture == Init /\ [][NextCapture]_vars


\* ---- claims -------------------------------------------------------------
ResourceRefs == <<microphoneStreamRef, inputAudioContextRef, outputAudioContextRef,
                  scriptProcessorRef, sessionPromiseRef>>
Released == /\ microphoneStreamRef = Null /\ scriptProcessorRef = Null
            /\ inputAudioContextRef = Null /\ outputAudioContextRef = Null
            /\ sessionPromiseRef = Null

\* a pending await of startSession invocation k completes
StartCompletion(k) ==
  MicGranted(k) \/ MicDenied(k) \/ OnOpen(k) \/ ConnectFailed(k)

\* C1: when stopSession ran while startSession invocation k was waiting for
\* the microphone or for the session to open, the completion of that wait
\* changes neither the status nor any resource ref.
C1_CancelledStartIgnored ==
  [][\A k \in StartIds :
       (k \in cancelled /\ StartCompletion(k)) => UNCHANGED <<status, ResourceRefs>>]_vars

\* C2: no fragment of a message delivered up to the last handled interruption
\* is playing or is in the active source set.
C2_NoFragmentFromBeforeInterrupt ==
  \A i \in MsgIds :
     (i \in audioSourcesRef \/ srcs[i].st = "playing") => i > lastInterruptId

\* C3: from Idle or Error the status changes only by startSession, by a
\* submission (which enters Processing) or by closing the widget.
C3_TerminalUntilStart ==
  [][(status \in {IDLE, ERROR} /\ status' # status)
        => (StartSession \/ HandleClose \/ status' = PROCESSING)]_vars

\* C4: when startSession begins a session (status Connecting), the transcript,
\* both accumulators and the active source set are empty and the playback
\* clock is 0.
C4_FreshSession ==
  [][(StartSession /\ status' = CONNECTING)
        => /\ transcription' = <<>>
           /\ currentInputTranscriptionRef' = <<>>
           /\ currentOutputTranscriptionRef' = <<>>
           /\ audioSourcesRef' = {}
           /\ nextAudioStartTimeRef' = 0]_vars

\* the last entry of a speaker holds exactly the given deltas
FinalText(tr, speaker, deltas) ==
  deltas # <<>> =>
    \E i \in 1..Len(tr) :
       /\ tr[i].speaker = speaker
       /\ \A j \in (i + 1)..Len(tr) : tr[j].speaker # speaker
       /\ tr[i].isFinal
       /\ tr[i].text = deltas

\* C5: when a session's turn-complete message is handled, the entry of each
\* speaker it commits holds the concatenation, in arrival order, of the
\* deltas that session delivered for the speaker in the turn.
C5_FinalTextIsConcatenation ==
  [][\A k \in StartIds, m \in TextMessages :
       (m.turnComplete /\ OnMessage(k, m))
          => /\ FinalText(transcription', "user", turnIn[k] \o m.inputTranscription)
             /\ FinalText(transcription', "bot", turnOut[k] \o m.outputTranscription)]_vars

\* C6: right after a turn-complete message is handled every transcript entry
\* is final and both accumulators are empty.
C6_TurnCompleteCommitsAll ==
  [][\A k \in StartIds, m \in TextMessages :
       (m.turnComplete /\ OnMessage(k, m))
          => /\ \A i \in 1..Len(transcription') : transcription'[i].isFinal
             /\ currentInputTranscriptionRef' = <<>>
             /\ currentOutputTranscriptionRef' = <<>>]_vars

\* a turn was committed with an entry of each speaker in the transcript
C6_Witness ==
  /\ Len(transcription) >= 2
  /\ \A i \in 1..Len(transcription) : transcription[i].isFinal
  /\ \E i, j \in 1..Len(transcription) :
        transcription[i].speaker = "user" /\ transcription[j].speaker = "bot"
  /\ currentInputTranscriptionRef = <<>>
  /\ currentOutputTranscriptionRef = <<>>

\* the end of the fragment scheduled last since the clock was reset
PreviousEnd == IF scheduled = <<>> THEN 0 ELSE scheduled[Len(scheduled)].end

NonOverlapping ==
  \A a, b \in 1..Len(scheduled) :
     a < b => scheduled[b].start >= scheduled[a].end

\* C7: every fragment starts at max(currentTime, end of the fragment scheduled
\* before it), and the fragments scheduled with no reset of the clock between
\* them occupy intervals that follow one another without overlap.
C7_SequentialPlayback ==
  /\ []NonOverlapping
  /\ [][\A d \in decodes :
          DecodeResolved(d) =>
             srcs'[d.id].start = Max(outCtx[d.ctx].time, PreviousEnd)]_vars

\* three fragments are queued, the last two behind their predecessor
C7_Witness ==
  /\ Len(scheduled) = 3
  /\ scheduled[2].start = scheduled[1].end
  /\ scheduled[3].start = scheduled[2].end
  /\ scheduled[1].end - scheduled[1].start # scheduled[2].end - scheduled[2].start

\* C8: of the fragments scheduled since the clock was last reset, one whose
\* message arrived earlier starts no later.
C8_PlayedInDeliveryOrder ==
  \A a, b \in 1..Len(scheduled) :
     scheduled[a].id < scheduled[b].id => scheduled[a].start <= scheduled[b].start

C10_StopReleasesAll ==
  /\ [][StopSession => (status' = IDLE /\ Released' /\ audioSourcesRef' = {})]_vars
  /\ [](afterStop => audioSourcesRef = {})

\* a submission of the voice widget settles: with a failure, with any outcome
SubmitFailure(s) ==
  \/ ExtractionFailed(s)
  \/ \E r \in RelayOutcomes : RelayAnswered(s, r) /\ ~(r.fetched /\ r.httpOk /\ r.ok)
SubmitSettles(s) ==
  ExtractionFailed(s) \/ \E r \in RelayOutcomes : RelayAnswered(s, r)

\* the same, text widget
SubmitFailureText(s) ==
  \/ ExtractionFailedText(s)
  \/ \E r \in RelayOutcomes : RelayAnsweredText(s, r) /\ ~(r.fetched /\ r.httpOk /\ r.ok)

\* C11: stopSession invoked on a stopped session (status Idle, every resource
\* released, no active source) changes neither the status nor any ref, session,
\* audio context or source.
C11_StopIdempotent ==
  [][\A s \in SubmitIds :
       (Stopped /\ SubmitSettles(s)) => UNCHANGED <<status, refVars, procVars, scheduled>>]_vars

\* a submission settled after the widget was closed under it
C11_Witness ==
  /\ idleStop /\ Stopped /\ ~isOpen
  /\ \E s \in SubmitIds : submitPc[s] \in {"ok", "failedExtract", "failedRelay"}

\* C12: a rejected getUserMedia, a rejected connect and the onerror callback
\* each leave status Error, an error message, every resource ref null and the
\* active source set empty.
C12_FailureTearsDown ==
  [][\A k \in StartIds :
       (MicDenied(k) \/ ConnectFailed(k) \/ OnError(k))
          => /\ status' = ERROR /\ error' # "null"
             /\ Released' /\ audioSourcesRef' = {}]_vars

\* C13: the onclose callback releases every resource ref and closes the
\* playback context that was held, and leaves a status of Error and its
\* message as they were.
C13_CloseKeepsError ==
  [][\A k \in StartIds :
       OnClose(k)
          => /\ Released'
             /\ outputAudioContextRef # Null
                  => outCtx'[outputAudioContextRef].st = "closed"
             /\ status = ERROR => (status' = ERROR /\ error' = error)]_vars

\* the session closed after its onerror callback had set the error
C13_Witness ==
  /\ status = ERROR /\ error = "We encountered a problem connecting"
  /\ Released
  /\ \E k \in StartIds : session[k] = "closed" /\ outCtx[k].st = "closed"

\* C14: without a credential or outside a secure context startSession ends in
\* status Error with a message; no microphone request, audio context or
\* session ever exists and the status is never Connecting.
C14_ConfigErrorShortCircuits ==
  /\ []((~apiKey \/ ~isSecureContext)
          => /\ status # CONNECTING /\ Released
             /\ \A k \in StartIds :
                  startPc[k] = "none" /\ session[k] = "none" /\ outCtx[k] = NoCtx)
  /\ [][(StartSession /\ (~apiKey \/ ~isSecureContext))
          => (status' = ERROR /\ error' # "null")]_vars

\* startSession stopped at the secure-context check
C14_Witness ==
  /\ apiKey /\ ~isSecureContext
  /\ status = ERROR /\ error = "Microphone access requires a secure connection"
  /\ nStarts = 0

\* C15: a rejected decode changes neither the status, the error, a ref, the
\* session nor a source; the messages after it are handled and their fragments
\* scheduled.
C15_DecodeFailureSkips ==
  [][\A d \in decodes :
       DecodeRejected(d)
          => UNCHANGED <<status, error, refVars, session, outCtx, srcs, scheduled>>]_vars

\* a fragment plays in a live session after the decode of an earlier one failed
C15_Witness ==
  /\ status = SPEAKING
  /\ \E i \in skipped, j \in audioSourcesRef :
        /\ i < j
        /\ srcs[j].st = "playing"
        /\ session[srcs[j].ctx] = "open"
        /\ outputAudioContextRef = srcs[j].ctx

\* C16: in either widget at most one submission is in flight.
C16_OneSubmissionInFlight ==
  /\ Cardinality(InFlight(submitPc)) <= 1
  /\ Cardinality(InFlight(textProc.submitPc)) <= 1

\* C17: when a submission settles with a failure the error message is set, and
\* in the voice widget the status is Error.
C17_FailureSurfaced ==
  [][/\ \A s \in SubmitIds :
          SubmitFailure(s) => (status' = ERROR /\ error' # "null")
     /\ \A s \in SubmitIds :
          SubmitFailureText(s) => chatbotText'.error # "null"]_vars

Submittable == isOpen /\ Len(transcription) >= 2 /\ botSaidThankYou
SubmittableText(c) ==
  /\ c.isOpen /\ Len(c.transcription) >= 2
  /\ \E i \in 1..Len(c.transcription) :
        c.transcription[i].speaker = "bot" /\ includes(c.transcription[i].text, ThankYou)

\* C19: when a submission settles with a failure the in-flight guard is cleared
\* and the transcript kept, and the submit button is rendered again if the
\* widget is open on a conversation that reached the closing line.
C19_RetryAfterFailure ==
  [][/\ \A s \in SubmitIds :
          SubmitFailure(s)
             => /\ ~isSubmitting' /\ transcription' = transcription
                /\ Submittable => showSubmitButton'
     /\ \A s \in SubmitIds :
          SubmitFailureText(s)
             => /\ ~chatbotText'.isSubmitting /\ ~chatbotText'.isSubmittingRef
                /\ chatbotText'.transcription = chatbotText.transcription
                /\ SubmittableText(chatbotText) => showSubmit(chatbotText')]_vars

\* C20: a "yes" sent in reply to a last bot entry containing "Is that correct?"
\* appends the user's entry and the closing entry, issues no model request and
\* leaves the submit button rendered; the button is rendered only when a bot
\* entry contains the thank-you line.
C20_ConfirmationCloses ==
  /\ [][(/\ SendMessage(<<"yes">>)
         /\ includes(lastBotMessage(chatbotText.transcription), "Is that correct?"))
          => /\ chatbotText'.transcription =
                  chatbotText.transcription \o
                    <<Entry("user", <<"yes">>), Entry("bot", <<"Perfect!", ThankYou>>)>>
             /\ textProc' = textProc
             /\ showSubmit(chatbotText')]_vars
  /\ [](showSubmit(chatbotText)
          => \E i \in 1..Len(chatbotText.transcription) :
                /\ chatbotText.transcription[i].speaker = "bot"
                /\ includes(chatbotText.transcription[i].text, ThankYou))

\* the conversation of the scenario, ready to be submitted
C20_Witness ==
  /\ chatbotText.isOpen /\ showSubmit(chatbotText)
  /\ textProc.requests = 0 /\ textProc.nSubmits = 0
  /\ Len(chatbotText.transcription) = 5
  /\ chatbotText.transcription[1] = Entry("bot", Intro)
  /\ chatbotText.transcription[3] = Entry("bot", ConfirmQuestion)
  /\ chatbotText.transcription[4] = Entry("user", <<"yes">>)
  /\ chatbotText.transcription[5] = Entry("bot", closingMessage)

\* session k is the live session of the widget
Live(k) ==
  /\ session[k] = "open"
  /\ sessionPromiseRef = k
  /\ outputAudioContextRef = k

\* C21: in a live session the status is Speaking once a fragment is scheduled;
\* a fragment that played to its end leaves the active set, and the status is
\* Listening if the set is then empty; and a live session whose status is
\* Speaking has a decode pending or a source whose onended is still to come,
\* so that Listening follows when no more audio arrives.
C21_SpeakingThenListening ==
  /\ [][\A d \in decodes :
          (DecodeResolved(d) /\ ~d.interrupted /\ Live(d.ctx)) => status' = SPEAKING]_vars
  /\ [][\A i \in MsgIds :
          (OnEnded(i) /\ srcs[i].st = "playing")
             => /\ i \notin audioSourcesRef'
                /\ audioSourcesRef' = {} => status' = LISTENING]_vars
  /\ [](\A k \in StartIds :
          (Live(k) /\ status = SPEAKING)
             => \/ decodes # {}
                \/ \E i \in MsgIds : srcs[i].st \in {"playing", "stopped"})

\* C22: a step other than startSession and closing the widget removes no
\* transcript entry, keeps the speaker of every entry and leaves every final
\* entry as it is.
C22_EntriesKept ==
  [][\/ StartSession
     \/ HandleClose
     \/ /\ Len(transcription') >= Len(transcription)
        /\ \A i \in 1..Len(transcription) :
              /\ transcription'[i].speaker = transcription[i].speaker
              /\ transcription[i].isFinal => transcription'[i] = transcription[i]]_vars

\* a partial transcription of the user arrived after the user's committed entry
C22_Witness ==
  /\ \E k \in StartIds : Live(k)
  /\ Len(transcription) = 2
  /\ transcription[1].speaker = "user" /\ transcription[1].isFinal
  /\ transcription[2].speaker = "user" /\ ~transcription[2].isFinal

\* the entries of a speaker that are not final
NonFinal(tr, speaker) ==
  {i \in 1..Len(tr) : tr[i].speaker = speaker /\ ~tr[i].isFinal}

\* C23: the transcript holds at most one non-final entry of each speaker.
C23_OneNonFinalPerSpeaker ==
  \A speaker \in {"user", "bot"} :
     Cardinality(NonFinal(transcription, speaker)) <= 1

\* C24: the status is Processing only while isSubmitting is set, it becomes
\* Processing only by handleDataSubmission, and while it is Processing no
\* inbound message, decoded fragment or onended callback changes it.
C24_ProcessingWhileSubmitting ==
  /\ [](status = PROCESSING => isSubmitting)
  /\ [][(status' = PROCESSING /\ status # PROCESSING) => HandleDataSubmission]_vars
  /\ [][(/\ status = PROCESSING
         /\ \/ \E k \in StartIds, m \in Messages : OnMessage(k, m)
            \/ \E d \in decodes : DecodeResolved(d)
            \/ \E i \in MsgIds : OnEnded(i))
          => status' = PROCESSING]_vars

\* C25: a source that was stopped or whose onended has run is not in the active
\* set; onended removes its own source only, and removes nothing when the
\* source was stopped before; an interruption, stopSession, closing the widget
\* and onended add no source to the set.
C25_RemovalIdempotent ==
  /\ [](\A i \in MsgIds : srcs[i].st \in {"stopped", "done"} => i \notin audioSourcesRef)
  /\ [][\A i \in MsgIds :
          OnEnded(i)
             => /\ audioSourcesRef' = audioSourcesRef \ {i}
                /\ srcs[i].st = "stopped" => audioSourcesRef' = audioSourcesRef]_vars
  /\ [][(\/ StopSession
         \/ HandleClose
         \/ \E k \in StartIds, m \in Messages : OnMessage(k, m)
         \/ \E i \in MsgIds : OnEnded(i))
          => audioSourcesRef' \subseteq audioSourcesRef]_vars

\* onended of a fragment and an interruption delivered after it have both run,
\* and a fragment scheduled after them is in the active set
C25_Witness ==
  \E i, j \in MsgIds :
     /\ i < lastInterruptId /\ lastInterruptId < j
     /\ srcs[i].st = "done"
     /\ srcs[j].st = "playing" /\ audioSourcesRef = {j}

\* every resource of a running session is held
Held ==
  /\ microphoneStreamRef # Null /\ scriptProcessorRef # Null
  /\ inputAudioContextRef # Null /\ outputAudioContextRef # Null
  /\ sessionPromiseRef # Null

\* C26: with a credential and a secure context startSession takes the status
\* from Idle or Error to Connecting; while its invocation waits and neither
\* stopSession nor closing the widget has run since, the status is Connecting;
\* and when its session opens the status becomes Listening with the microphone
\* stream, both audio contexts, the capture processor and the session handle
\* held.
C26_StartReachesListening ==
  /\ [][(StartSession /\ apiKey /\ isSecureContext)
          => (status \in {IDLE, ERROR} /\ status' = CONNECTING)]_vars
  /\ [](\A k \in StartIds :
          (startPc[k] \in {"mic", "connect"} /\ k \notin cancelled /\ isOpen)
             => status = CONNECTING)
  /\ [][\A k \in StartIds :
          (OnOpen(k) /\ k \notin cancelled /\ isOpen)
             => (status' = LISTENING /\ Held' /\ sessionPromiseRef' = k)]_vars

\* C27: a request the relay has answered was forwarded to the webhook at most
\* once; its answer has ok = true exactly when the webhook responded with a 2xx
\* status, and carries the webhook's status when the webhook responded; when
\* the body could not be read or parsed or the forward failed the answer is
\* HTTP 500 with ok = false and an error field.
C27_RelayAnswers ==
  \A q \in RequestIds :
     /\ relay[q].forwards <= 1
     /\ relay[q].pc = "answered" =>
          /\ relay[q].response.ok
               <=> (relay[q].webhook # Null
                      /\ relay[q].webhook >= 200 /\ relay[q].webhook <= 299)
          /\ relay[q].webhook # Null => relay[q].response.status = relay[q].webhook
          /\ relay[q].webhook = Null
               => /\ relay[q].failed # "none"
                  /\ relay[q].response =
                       [http |-> 500, ok |-> FALSE, status |-> Null, error |-> TRUE]
          /\ relay[q].body = "malformed" => relay[q].forwards = 0

\* one request answered after the webhook refused it, another after its body
\* failed to parse
C27_Witness ==
  \E q, p \in RequestIds :
     /\ relay[q].pc = "answered" /\ relay[q].webhook = 502 /\ ~relay[q].response.ok
     /\ relay[p].pc = "answered" /\ relay[p].failed = "parse"

\* C28: while the status is Listening or Speaking the microphone stream, both
\* audio contexts and the session handle are held.
C28_ActiveHoldsResources ==
  status \in {LISTENING, SPEAKING}
     => /\ microphoneStreamRef # Null
        /\ inputAudioContextRef # Null /\ outputAudioContextRef # Null
        /\ sessionPromiseRef # Null

\* a callback of session k runs: onopen, onmessage, onerror, onclose, or the
\* onended of a source of its playback context
SessionCallback(k) ==
  \/ OnOpen(k)
  \/ \E m \in Messages : OnMessage(k, m)
  \/ OnError(k)
  \/ OnClose(k)
  \/ \E i \in MsgIds : srcs[i].ctx = k /\ OnEnded(i)

\* C29: once a later startSession has run, a callback of an earlier session
\* changes neither the status, a resource ref nor the transcript.
C29_StaleCallbacksIgnored ==
  [][\A k \in StartIds :
       (nStarts > k /\ SessionCallback(k))
          => UNCHANGED <<status, ResourceRefs, transcription>>]_vars

\* a submission of the text widget settles, with any outcome
SubmitSettlesText(s) ==
  ExtractionFailedText(s) \/ \E r \in RelayOutcomes : RelayAnsweredText(s, r)

\* C30: a submission that settles after its widget was closed leaves the
\* feedback prompt hidden and the error unset; a submission that settles while
\* a newer one is in flight leaves the in-flight guard set; and at most one
\* submission of the text widget, which can be opened again, is in flight.
C30_SettleKeepsReset ==
  /\ [][\A s \in SubmitIds :
          (SubmitSettles(s) /\ ~isOpen) => (~showFeedback' /\ error' = "null")]_vars
  /\ [][\A s \in SubmitIds :
          (SubmitSettlesText(s) /\ ~chatbotText.isOpen)
             => (~chatbotText'.showFeedback /\ chatbotText'.error = "null")]_vars
  /\ [][\A s \in SubmitIds :
          (SubmitSettlesText(s) /\ InFlight(textProc.submitPc) \ {s} # {})
             => (chatbotText'.isSubmittingRef /\ chatbotText'.isSubmitting)]_vars
  /\ [](Cardinality(InFlight(textProc.submitPc)) <= 1)

\* C31: a response that arrives while the text widget is closed adds no entry
\* to the transcript or the chat history; while the widget is open the first
\* transcript entry is the bot introduction; and the transcript and the chat
\* history have the same length.
C31_LateResponseDropped ==
  /\ [][\A botText \in BotTexts :
          (ResponseArrived(botText) /\ ~chatbotText.isOpen)
             => /\ chatbotText'.transcription = chatbotText.transcription
                /\ chatbotText'.chatHistoryRef = chatbotText.chatHistoryRef]_vars
  /\ [](chatbotText.isOpen
          => /\ Len(chatbotText.transcription) >= 1
             /\ chatbotText.transcription[1] = Entry("bot", Intro))
  /\ [](Len(chatbotText.transcription) = Len(chatbotText.chatHistoryRef))

\* the replies that affirm
Affirmations ==
  {<<"yes">>, <<"correct">>, <<"that's right">>, <<"yep">>, <<"yeah">>,
   <<"sounds good">>}

\* C32: a reply to "Is that correct?" that is not an affirmation appends the
\* user's entry only, leaves the submit button hidden and, with a credential,
\* issues a model request.
C32_OnlyAffirmationCloses ==
  [][\A inputValue \in UserTexts :
       (/\ SendMessage(inputValue)
        /\ trim(inputValue) # <<>> /\ trim(inputValue) \notin Affirmations
        /\ includes(lastBotMessage(chatbotText.transcription), "Is that correct?")
        /\ ~showSubmit(chatbotText))
          => /\ chatbotText'.transcription =
                  Append(chatbotText.transcription, Entry("user", trim(inputValue)))
             /\ ~showSubmit(chatbotText')
             /\ apiKey => textProc'.requests = textProc.requests + 1]_vars

\* C33: at most one generateContent call of sendMessage is in flight, and
\* isLoading is set exactly while one is; sendMessage without a credential
\* leaves isLoading clear and issues no request; sendMessage with an empty or
\* whitespace-only input changes nothing.
C33_OneRequestInFlight ==
  /\ [](textProc.requests <= 1)
  /\ [](chatbotText.isLoading <=> textProc.requests = 1)
  /\ [][\A inputValue \in UserTexts :
          SendMessage(inputValue)
             => /\ ~apiKey => (~chatbotText'.isLoading /\ textProc' = textProc)
                /\ inputValue \in {<<>>, <<" ">>} => UNCHANGED textVars]_vars

\* the chat was closed and opened again while a request is in flight
C33_Witness ==
  /\ chatbotText.isOpen /\ chatbotText.isLoading
  /\ textProc.requests = 1
  /\ chatbotText.transcription = <<Entry("bot", Intro)>>

\* C34: every sample s of a handled block is emitted as trunc(s * 32768), the
\* integer v with |s * 32768| - 1 < |v| <= |s * 32768| on the side of s, which
\* has the sign of s (or is 0) and lies within [-32768, 32767].
C34_QuantizedInRange ==
  \A i \in 1..Len(capture.inputData) :
     LET n == capture.inputData[i]
         v == capture.int16[i]
     IN /\ v * SampleSteps <= n * 32768 + (IF n >= 0 THEN 0 ELSE SampleSteps - 1)
        /\ v * SampleSteps >= n * 32768 - (IF n >= 0 THEN SampleSteps - 1 ELSE 0)
        /\ n > 0 => v >= 0
        /\ n < 0 => v <= 0
        /\ v >= 0 - 32768 /\ v <= 32767

====
